---------------------------- MODULE Spec2Model ----------------------------
(***************************************************************************)
(* DRAM FTP-to-HTTPS patcher (scripts/patch_dram_https.py).                *)
(*                                                                         *)
(* File contents are sequences of one-character strings.  The rule tables  *)
(* carry the regular-expression source text of the script; re.findall and  *)
(* re.sub are modelled on characters (leftmost, non-overlapping matches).  *)
(***************************************************************************)
EXTENDS Integers, Sequences

(***************************************************************************)
(* Rule Set: DRAMPatcher.URL_REPLACEMENTS and DRAMPatcher.BUG_FIXES.       *)
(* PAT_* is the pattern as written in the source (a backslash escapes the  *)
(* next character), REP_* the replacement text.                            *)
(***************************************************************************)
PAT_GENOME ==
    <<"f","t","p",":","/","/","f","t","p","\\",".","g","e","n","o","m","e","\\",".","j",
      "p","/">>

REP_GENOME ==
    <<"h","t","t","p","s",":","/","/","w","w","w",".","g","e","n","o","m","e",".","j",
      "p","/","f","t","p","/">>

PAT_PFAM ==
    <<"f","t","p",":","/","/","f","t","p","\\",".","e","b","i","\\",".","a","c","\\",
      ".","u","k","/","p","u","b","/","d","a","t","a","b","a","s","e","s","/","P","f",
      "a","m","/">>

REP_PFAM ==
    <<"h","t","t","p","s",":","/","/","f","t","p",".","e","b","i",".","a","c",".","u",
      "k","/","p","u","b","/","d","a","t","a","b","a","s","e","s","/","P","f","a","m",
      "/">>

PAT_UNIPROT ==
    <<"f","t","p",":","/","/","f","t","p","\\",".","u","n","i","p","r","o","t","\\",".",
      "o","r","g","/","p","u","b","/","d","a","t","a","b","a","s","e","s","/","u","n",
      "i","p","r","o","t","/">>

REP_UNIPROT ==
    <<"h","t","t","p","s",":","/","/","f","t","p",".","u","n","i","p","r","o","t",".",
      "o","r","g","/","p","u","b","/","d","a","t","a","b","a","s","e","s","/","u","n",
      "i","p","r","o","t","/">>

PAT_MEROPS ==
    <<"f","t","p",":","/","/","f","t","p","\\",".","e","b","i","\\",".","a","c","\\",
      ".","u","k","/","p","u","b","/","d","a","t","a","b","a","s","e","s","/","m","e",
      "r","o","p","s","/">>

REP_MEROPS ==
    <<"h","t","t","p","s",":","/","/","f","t","p",".","e","b","i",".","a","c",".","u",
      "k","/","p","u","b","/","d","a","t","a","b","a","s","e","s","/","m","e","r","o",
      "p","s","/">>

PAT_DBCAN ==
    <<"f","t","p",":","/","/","b","c","b","\\",".","u","n","l","\\",".","e","d","u","/",
      "d","b","C","A","N","2","/">>

REP_DBCAN ==
    <<"h","t","t","p","s",":","/","/","b","c","b",".","u","n","l",".","e","d","u","/",
      "d","b","C","A","N","2","/">>

PAT_VOG ==
    <<"f","t","p",":","/","/","f","i","l","e","s","h","a","r","e","\\",".","c","s","b",
      "\\",".","u","n","i","v","i","e","\\",".","a","c","\\",".","a","t","/","v","o",
      "g","/">>

REP_VOG ==
    <<"h","t","t","p","s",":","/","/","f","i","l","e","s","h","a","r","e",".","c","s",
      "b",".","u","n","i","v","i","e",".","a","c",".","a","t","/","v","o","g","/">>

PAT_VOGHMM ==
    <<"p","a","t","h","\\",".","j","o","i","n","\\","(","h","m","m","_","d","i","r",",",
      " ","'","V","O","G","\\","*","\\",".","h","m","m","'","\\",")">>

REP_VOGHMM ==
    <<"p","a","t","h",".","j","o","i","n","(","h","m","m","_","d","i","r",","," ","'",
      "h","m","m","'",","," ","'","V","O","G","*",".","h","m","m","'",")">>

(***************************************************************************)
(* The two ordered mappings, in the order the dict literals list them.     *)
(***************************************************************************)
URL_REPLACEMENTS ==
    << <<PAT_GENOME, REP_GENOME>>,
       <<PAT_PFAM, REP_PFAM>>,
       <<PAT_UNIPROT, REP_UNIPROT>>,
       <<PAT_MEROPS, REP_MEROPS>>,
       <<PAT_DBCAN, REP_DBCAN>>,
       <<PAT_VOG, REP_VOG>> >>

BUG_FIXES ==
    << <<PAT_VOGHMM, REP_VOGHMM>> >>

(***************************************************************************)
(* Python's re, restricted to what the patterns of this script use:        *)
(* a backslash followed by a punctuation character matches that character, *)
(* an unescaped dot matches any character but a newline, and every other   *)
(* character matches itself.                                               *)
(***************************************************************************)
RECURSIVE re_compile(_)
re_compile(p) ==
    IF p = <<>> THEN <<>>
    ELSE IF p[1] = "\\" /\ Len(p) >= 2
         THEN <<[any |-> FALSE, ch |-> p[2]]>> \o re_compile(SubSeq(p, 3, Len(p)))
    ELSE IF p[1] = "."
         THEN <<[any |-> TRUE, ch |-> "."]>> \o re_compile(Tail(p))
    ELSE <<[any |-> FALSE, ch |-> p[1]]>> \o re_compile(Tail(p))

\* Python's re keeps compiled patterns in a cache keyed by the pattern text.
re_cache ==
    [p \in { URL_REPLACEMENTS[k][1] : k \in 1..Len(URL_REPLACEMENTS) }
             \cup { BUG_FIXES[k][1] : k \in 1..Len(BUG_FIXES) } |-> re_compile(p)]

\* The compiled pattern matches text at position i.
re_match_at(atoms, text, i) ==
    /\ i + Len(atoms) - 1 <= Len(text)
    /\ \A k \in 1..Len(atoms) :
          IF atoms[k].any THEN text[i + k - 1] # "\n"
                          ELSE text[i + k - 1] = atoms[k].ch

\* Start positions of the leftmost non-overlapping matches: the scan takes the
\* first match at or after i and resumes behind it.
RECURSIVE re_scan(_, _, _)
re_scan(found, width, i) ==
    LET later == { m \in found : m >= i }
    IN  IF later = {} THEN <<>>
        ELSE LET m == CHOOSE x \in later : \A y \in later : x <= y
             IN  <<m>> \o re_scan(found, width, m + width)

re_matches(atoms, text) ==
    re_scan({ i \in 1..Len(text) : re_match_at(atoms, text, i) }, Len(atoms), 1)

\* re.findall(pattern, text): the matched substrings, in order.
re_findall(pattern, text) ==
    LET atoms == re_cache[pattern]
        at    == re_matches(atoms, text)
    IN  [k \in 1..Len(at) |-> SubSeq(text, at[k], at[k] + Len(atoms) - 1)]

\* text from position i on, with the matches starting at at[k], at[k+1], ...
\* replaced by repl.
RECURSIVE re_splice(_, _, _, _, _, _)
re_splice(text, at, width, repl, k, i) ==
    IF k > Len(at) THEN SubSeq(text, i, Len(text))
    ELSE SubSeq(text, i, at[k] - 1) \o repl
           \o re_splice(text, at, width, repl, k + 1, at[k] + width)

\* re.sub(pattern, repl, text): every match replaced by repl.
re_sub(pattern, repl, text) ==
    LET atoms == re_cache[pattern]
    IN  re_splice(text, re_matches(atoms, text), Len(atoms), repl, 1, 1)

\* re.sub with count=1: only the first match replaced.
re_sub_once(pattern, repl, text) ==
    LET atoms == re_cache[pattern]
        at    == re_matches(atoms, text)
    IN  re_splice(text, SubSeq(at, 1, 1), Len(atoms), repl, 1, 1)

(***************************************************************************)
(* The detection patterns  ftp://[^\s'"]+  and  https://[^\s'"]+ :         *)
(* the scheme prefix followed by the longest non-empty run of characters   *)
(* that are neither whitespace nor a quote.                                *)
(***************************************************************************)
FTP_SCHEME == <<"f","t","p",":","/","/">>

HTTPS_SCHEME == <<"h","t","t","p","s",":","/","/">>

URL_STOP == {" ", "\t", "\n", "\r", "\f", "'", "\""}

prefix_at(prefix, text, i) ==
    /\ i + Len(prefix) - 1 <= Len(text)
    /\ \A k \in 1..Len(prefix) : text[i + k - 1] = prefix[k]

\* Last position of the run of URL characters that starts at j.
url_end(text, j) ==
    CHOOSE e \in j..Len(text) :
        /\ \A x \in j..e : text[x] \notin URL_STOP
        /\ e = Len(text) \/ text[e + 1] \in URL_STOP

\* The matches are disjoint and taken left to right: a match begins at a
\* position where the prefix and one URL character stand, unless an earlier
\* match has swallowed it.
RECURSIVE url_scan(_, _, _, _)
url_scan(starts, width, text, i) ==
    LET later == { m \in starts : m >= i }
    IN  IF later = {} THEN <<>>
        ELSE LET m == CHOOSE x \in later : \A y \in later : x <= y
                 e == url_end(text, m + width)
             IN  <<SubSeq(text, m, e)>> \o url_scan(starts, width, text, e + 1)

url_findall(prefix, text) ==
    url_scan({ i \in 1..Len(text) :
                  /\ prefix_at(prefix, text, i)
                  /\ i + Len(prefix) <= Len(text)
                  /\ text[i + Len(prefix)] \notin URL_STOP }, Len(prefix), text, 1)

\* Variant: a detection pattern that knows only hosts named ftp.*
find_ftp_urls_narrow(content) ==
    url_findall(FTP_SCHEME \o <<"f","t","p",".">>, content)

\* ftp_pattern.findall(content) of analyze_file and verify_patch.
find_ftp_urls(content) == url_findall(FTP_SCHEME, content)

\* https_pattern.findall(content) of verify_patch.
find_https_urls(content) == url_findall(HTTPS_SCHEME, content)

(***************************************************************************)
(* The rule loops of apply_patch.  acc is the pair the loop carries:       *)
(* modified_content and changes_made.                                      *)
(***************************************************************************)
\* Variant: the substitution stops after the first match (count=1).
apply_rule_sub_once(kind, rule, acc) ==
    LET matches == re_findall(rule[1], acc.modified_content)
    IN  IF matches # <<>>
        THEN [modified_content |-> re_sub_once(rule[1], rule[2], acc.modified_content),
              changes_made     |-> Append(acc.changes_made,
                                          <<kind, rule[1], rule[2], Len(matches)>>)]
        ELSE acc

\* One iteration: count the matches in the current text and, if there are
\* any, substitute them all and append the change.
apply_rule(kind, rule, acc) ==
    LET matches == re_findall(rule[1], acc.modified_content)
    IN  IF matches # <<>>
        THEN [modified_content |-> re_sub(rule[1], rule[2], acc.modified_content),
              changes_made     |-> Append(acc.changes_made,
                                          <<kind, rule[1], rule[2], Len(matches)>>)]
        ELSE acc

\* Variant: the loop stops one rule short.
RECURSIVE apply_rules_skip_last(_, _, _, _)
apply_rules_skip_last(kind, rules, k, acc) ==
    IF k >= Len(rules) THEN acc
    ELSE apply_rules_skip_last(kind, rules, k + 1, apply_rule(kind, rules[k], acc))

\* for pattern, replacement in rules.items(), from rule k on.
RECURSIVE apply_rules(_, _, _, _)
apply_rules(kind, rules, k, acc) ==
    IF k > Len(rules) THEN acc
    ELSE apply_rules(kind, rules, k + 1, apply_rule(kind, rules[k], acc))

\* Variant: the bug-fix loop runs before the URL loop.
patch_loops_bug_first(original_content) ==
    apply_rules("URL", URL_REPLACEMENTS, 1,
        apply_rules("BUG", BUG_FIXES, 1,
            [modified_content |-> original_content, changes_made |-> <<>>]))

\* Both loops, URL replacements first, from the content read from the file.
patch_loops(original_content) ==
    apply_rules("BUG", BUG_FIXES, 1,
        apply_rules("URL", URL_REPLACEMENTS, 1,
            [modified_content |-> original_content, changes_made |-> <<>>]))

\* apply_patch returns False exactly when no rule fired.
apply_returns(changes_made) == IF changes_made = <<>> THEN "False" ELSE "True"

\* apply_patch reaches its open(handler_file, 'w').
apply_writes(changes_made, dry_run) == changes_made # <<>> /\ ~dry_run

\* Variant: .py.original is rewritten by every backup.
copy_original_overwrite(original, content) == <<content>>

\* create_backup copies to .py.original only if that file does not exist.
\* A missing file is <<>>, an existing one <<content>>.
copy_original(original, content) ==
    IF original = <<>> THEN <<content>> ELSE original

\* Variant: restore_backup does not test for the file.
original_exists_unchecked(original) == TRUE

\* restore_backup's test original_backup.exists().
original_exists(original) == original # <<>>

\* Variant: the arguments of copy2 are exchanged.
restore_copy_swapped(original, target) ==
    [handler_file |-> target, original_backup |-> <<target>>]

\* restore_backup's shutil.copy2(original_backup, self.handler_file): the two
\* files afterwards.
restore_copy(original, target) ==
    [handler_file |-> original[1], original_backup |-> original]

\* verify_patch returns True iff no FTP URL remains.
verify_returns(remaining_ftp) == IF Len(remaining_ftp) = 0 THEN "True" ELSE "False"

(***************************************************************************)
(* Inputs.  A target file is a concatenation of fragments: the text each   *)
(* rule matches, an FTP URL no rule covers, a path tail and separators.    *)
(***************************************************************************)
MaxFragments == 2

MaxStamps == 2

literal(pattern) ==
    LET atoms == re_compile(pattern) IN [k \in 1..Len(atoms) |-> atoms[k].ch]

OTHER_FTP ==
    <<"f","t","p",":","/","/","f","t","p","x","g","e","n","o","m","e",".","j","p","/">>

PATH_TAIL == <<"p","u","b","/","x",".","h","m","m">>

Fragments ==
    { literal(URL_REPLACEMENTS[k][1]) : k \in 1..Len(URL_REPLACEMENTS) }
      \cup { literal(BUG_FIXES[k][1]) : k \in 1..Len(BUG_FIXES) }
      \cup { OTHER_FTP, PATH_TAIL, <<" ">>, <<"'">> }

RECURSIVE flatten(_)
flatten(s) == IF s = <<>> THEN <<>> ELSE s[1] \o flatten(Tail(s))

Contents ==
    { flatten(s) : s \in UNION { [1..n -> Fragments] : n \in 0..MaxFragments } }

\* Files for the runs that exercise snapshots and whole invocations.
SampleFiles ==
    { <<>>,
      literal(PAT_GENOME) \o PATH_TAIL,
      literal(PAT_VOGHMM),
      literal(PAT_VOG) \o <<" ">> \o literal(PAT_VOGHMM),
      OTHER_FTP \o <<"'">> \o literal(PAT_PFAM),
      REP_GENOME \o PATH_TAIL }

Stamps == 1..MaxStamps

(***************************************************************************)
(* State.                                                                  *)
(*   handler_file     content of database_processing.py                    *)
(*   original_backup  database_processing.py.original: <<>> or <<content>> *)
(*   backup_dir       ~/DRAM_backups/<timestamp>/database_processing.py,   *)
(*                    per timestamp: <<>> or <<content>>                   *)
(*   last, prev       the two most recent method calls of the patcher      *)
(*                    object, each with the file state it started from     *)
(*   pc, args, calls, rc   a run of main(): its position, its parsed       *)
(*                    arguments, the methods it has called, its exit code  *)
(***************************************************************************)
VARIABLES handler_file, original_backup, backup_dir, last, prev, pc, args, calls, rc

fs == <<handler_file, original_backup, backup_dir>>

proc == <<pc, args, calls, rc>>

vars == <<handler_file, original_backup, backup_dir, last, prev, pc, args, calls, rc>>

NoCall ==
    [op |-> "none", dry_run |-> FALSE, pre |-> <<>>, pre_original |-> <<>>,
     pre_backups |-> [t \in Stamps |-> <<>>],
     ret |-> "None", wrote |-> FALSE, changes_made |-> <<>>,
     ftp_urls |-> <<>>, https_urls |-> <<>>]

\* A call record: the method, the file state at entry, then what it did.
Entry(op) ==
    [NoCall EXCEPT !.op = op, !.pre = handler_file,
                   !.pre_original = original_backup, !.pre_backups = backup_dir]

Record(rec) == last' = rec /\ prev' = last

NoArgs == [restore |-> FALSE, verify_only |-> FALSE, dry_run |-> FALSE, no_backup |-> FALSE]

Args == [restore : BOOLEAN, verify_only : BOOLEAN, dry_run : BOOLEAN, no_backup : BOOLEAN]

Faults == {"none", "backup_copy", "original_copy"}

InitWith(files) ==
    /\ handler_file \in files
    /\ original_backup = <<>>
    /\ backup_dir = [t \in Stamps |-> <<>>]
    /\ last = NoCall
    /\ prev = NoCall
    /\ pc = "idle"
    /\ args = NoArgs
    /\ calls = <<>>
    /\ rc = 0

(***************************************************************************)
(* The methods of DRAMPatcher.                                             *)
(***************************************************************************)
\* t is datetime.now() to the second; fault is the step that raises, if any:
\* the copy into the backup directory, or the copy to .py.original.
create_backup(t, fault) ==
    /\ fault = "original_copy" => original_backup = <<>>
    /\ backup_dir' = IF fault = "backup_copy" THEN backup_dir
                     ELSE [backup_dir EXCEPT ![t] = <<handler_file>>]
    /\ original_backup' = IF fault = "none"
                          THEN copy_original(original_backup, handler_file)
                          ELSE original_backup
    /\ UNCHANGED handler_file
    /\ Record([Entry("create_backup") EXCEPT
                  !.ret = IF fault = "none" THEN "path" ELSE "raise"])

\* shutil.copy2 raises when its source does not exist.
restore_backup ==
    IF ~original_exists(original_backup)
    THEN /\ UNCHANGED fs
         /\ Record([Entry("restore_backup") EXCEPT !.ret = "False"])
    ELSE IF original_backup = <<>>
    THEN /\ UNCHANGED fs
         /\ Record([Entry("restore_backup") EXCEPT !.ret = "raise"])
    ELSE /\ \E c \in {restore_copy(original_backup, handler_file)} :
              /\ handler_file' = c.handler_file
              /\ original_backup' = c.original_backup
         /\ UNCHANGED backup_dir
         /\ Record([Entry("restore_backup") EXCEPT !.ret = "True", !.wrote = TRUE])

analyze_file ==
    /\ UNCHANGED fs
    /\ Record([Entry("analyze_file") EXCEPT
                  !.ret = "list", !.ftp_urls = find_ftp_urls(handler_file)])

apply_patch(dry_run) ==
    \E out \in {patch_loops(handler_file)} :
    LET w == apply_writes(out.changes_made, dry_run)
    IN  /\ handler_file' = IF w THEN out.modified_content ELSE handler_file
        /\ UNCHANGED <<original_backup, backup_dir>>
        /\ Record([Entry("apply_patch") EXCEPT
                      !.dry_run = dry_run,
                      !.ret = apply_returns(out.changes_made),
                      !.wrote = w,
                      !.changes_made = out.changes_made])

verify_patch ==
    \E remaining_ftp \in {find_ftp_urls(handler_file)} :
        /\ UNCHANGED fs
        /\ Record([Entry("verify_patch") EXCEPT
                      !.ret = verify_returns(remaining_ftp),
                      !.ftp_urls = remaining_ftp,
                      !.https_urls = find_https_urls(handler_file)])

(***************************************************************************)
(* A client calling the methods directly, in any order.                    *)
(***************************************************************************)
CreateBackup == \E t \in Stamps, fault \in Faults :
                    create_backup(t, fault) /\ UNCHANGED proc

RestoreBackup == restore_backup /\ UNCHANGED proc

AnalyzeFile == analyze_file /\ UNCHANGED proc

ApplyPatch == \E dry_run \in BOOLEAN : apply_patch(dry_run) /\ UNCHANGED proc

VerifyPatch == verify_patch /\ UNCHANGED proc

PatchNext == AnalyzeFile \/ ApplyPatch \/ VerifyPatch

Next == CreateBackup \/ RestoreBackup \/ AnalyzeFile \/ ApplyPatch \/ VerifyPatch

PatchInit == InitWith(Contents)

Init == InitWith(SampleFiles)

PatchSpec == PatchInit /\ [][PatchNext]_vars

Spec == Init /\ [][Next]_vars

(***************************************************************************)
(* main(): one run of the script.  Each step is one method call together   *)
(* with the branch main takes on its result.  An exception raised by a     *)
(* method is caught by main's handler, which returns 1.                    *)
(***************************************************************************)
Invoke(name) == calls' = Append(calls, name)

Exit(code) == pc' = "done" /\ rc' = code

\* The script starts: arguments parsed, DRAMPatcher constructed.
MainBegin ==
    /\ pc \in {"idle", "done"}
    /\ \E a \in Args : args' = a
    /\ pc' = "dispatch"
    /\ calls' = <<>>
    /\ rc' = 0
    /\ last' = NoCall
    /\ prev' = NoCall
    /\ UNCHANGED fs

\* _find_dram_path raises: the provided path does not exist.
MainPathError ==
    /\ pc = "dispatch"
    /\ calls = <<>>
    /\ Exit(1)
    /\ UNCHANGED <<fs, last, prev, args, calls>>

\* Variant: verify_patch runs whatever restore_backup returned.
after_restore_always_verify(ok) == "restore_verify"

\* Where main goes after restore_backup returned ok.
after_restore(ok) == IF ok THEN "restore_verify" ELSE "done"

MainRestore ==
    /\ pc = "dispatch"
    /\ args.restore
    /\ restore_backup
    /\ Invoke("restore_backup")
    /\ pc' = after_restore(last'.ret = "True")
    /\ rc' = 0
    /\ UNCHANGED args

MainRestoreVerify ==
    /\ pc = "restore_verify"
    /\ verify_patch
    /\ Invoke("verify_patch")
    /\ Exit(0)
    /\ UNCHANGED args

MainVerifyOnlyAnalyze ==
    /\ pc = "dispatch"
    /\ ~args.restore
    /\ args.verify_only
    /\ analyze_file
    /\ Invoke("analyze_file")
    /\ pc' = "verify_only"
    /\ UNCHANGED <<args, rc>>

MainVerifyOnlyVerify ==
    /\ pc = "verify_only"
    /\ verify_patch
    /\ Invoke("verify_patch")
    /\ Exit(0)
    /\ UNCHANGED args

\* Where the normal patch mode goes after analyze_file.
after_analyze(ftp_urls, no_backup) ==
    IF ftp_urls = <<>> THEN "done"
    ELSE IF no_backup THEN "apply" ELSE "backup"

MainAnalyze ==
    /\ pc = "dispatch"
    /\ ~args.restore
    /\ ~args.verify_only
    /\ analyze_file
    /\ Invoke("analyze_file")
    /\ pc' = after_analyze(last'.ftp_urls, args.no_backup)
    /\ UNCHANGED <<args, rc>>

\* Variant: a failed backup does not stop the run.
after_backup_swallow(raised) == "apply"

\* Where main goes after create_backup: on, or into the exception handler.
after_backup(raised) == IF raised THEN "done" ELSE "apply"

MainBackup ==
    /\ pc = "backup"
    /\ \E t \in Stamps, fault \in Faults : create_backup(t, fault)
    /\ Invoke("create_backup")
    /\ pc' = after_backup(last'.ret = "raise")
    /\ rc' = IF last'.ret = "raise" THEN 1 ELSE 0
    /\ UNCHANGED args

\* Where main goes after apply_patch.
after_apply(changed, dry_run) == IF changed /\ ~dry_run THEN "verify" ELSE "done"

MainApply ==
    /\ pc = "apply"
    /\ apply_patch(args.dry_run)
    /\ Invoke("apply_patch")
    /\ pc' = after_apply(last'.ret = "True", args.dry_run)
    /\ UNCHANGED <<args, rc>>

MainVerify ==
    /\ pc = "verify"
    /\ verify_patch
    /\ Invoke("verify_patch")
    /\ Exit(0)
    /\ UNCHANGED args

MainNext ==
    \/ MainBegin
    \/ MainPathError
    \/ MainRestore
    \/ MainRestoreVerify
    \/ MainVerifyOnlyAnalyze
    \/ MainVerifyOnlyVerify
    \/ MainAnalyze
    \/ MainBackup
    \/ MainApply
    \/ MainVerify

MainSpec == Init /\ [][MainNext]_vars

(***************************************************************************)
(* Properties.                                                             *)
(***************************************************************************)
AllPatterns ==
    { URL_REPLACEMENTS[k][1] : k \in 1..Len(URL_REPLACEMENTS) }
      \cup { BUG_FIXES[k][1] : k \in 1..Len(BUG_FIXES) }

RealApply(rec) == rec.op = "apply_patch" /\ ~rec.dry_run

\* C1: idempotence of apply.  When apply_patch(dry_run=False) runs twice in
\* a row, the second run finds no match of any rule in the content the first
\* run left, records no change, does not write, returns False, and the file
\* after it is the file after the first run.
C1_ApplyIdempotent ==
    (RealApply(prev) /\ RealApply(last)) =>
        /\ \A p \in AllPatterns : re_findall(p, last.pre) = <<>>
        /\ last.changes_made = <<>>
        /\ ~last.wrote
        /\ last.ret = "False"
        /\ handler_file = last.pre

\* The first of two runs rewrote the file, two occurrences of one rule among
\* its changes.
C1_Witness ==
    /\ RealApply(prev) /\ prev.wrote
    /\ \E k \in 1..Len(prev.changes_made) : prev.changes_made[k][4] = 2
    /\ RealApply(last) /\ last.ret = "False"

AnalyzedEmpty(rec) == rec.op = "analyze_file" /\ rec.ftp_urls = <<>>

\* C4 as claimed: whenever analyze_file returns an empty list, an
\* apply_patch(dry_run=False) on that content writes nothing and returns False.
C4_NoOpSafety_Original ==
    (AnalyzedEmpty(prev) /\ RealApply(last)) =>
        (~last.wrote /\ last.ret = "False" /\ handler_file = last.pre)

\* C4 amended: whenever analyze_file returns an empty list and no bug-fix
\* pattern matches the content, apply_patch(dry_run=False) writes nothing and
\* returns False.
C4_NoOpSafety ==
    (/\ AnalyzedEmpty(prev)
     /\ RealApply(last)
     /\ \A k \in 1..Len(BUG_FIXES) : re_findall(BUG_FIXES[k][1], last.pre) = <<>>) =>
        (~last.wrote /\ last.ret = "False" /\ handler_file = last.pre)

\* analyze_file found nothing in a non-empty file holding https URLs, and
\* apply_patch left it alone.
C4_Witness ==
    /\ AnalyzedEmpty(prev)
    /\ RealApply(last)
    /\ find_https_urls(last.pre) # <<>>
    /\ ~last.wrote /\ last.ret = "False"

IsPrefix(p, s) == Len(p) <= Len(s) /\ SubSeq(s, 1, Len(p)) = p

\* Every FTP URL the detection pattern finds begins with the text of a URL rule.
KnownReferences(content) ==
    \A u \in { find_ftp_urls(content)[i] : i \in 1..Len(find_ftp_urls(content)) } :
        \E k \in 1..Len(URL_REPLACEMENTS) : IsPrefix(literal(URL_REPLACEMENTS[k][1]), u)

\* Every occurrence of ftp:// in the content begins a match of a URL rule.
KnownOccurrences(content) ==
    \A i \in 1..Len(content) :
        prefix_at(FTP_SCHEME, content, i) =>
            \E k \in 1..Len(URL_REPLACEMENTS) :
                re_match_at(re_cache[URL_REPLACEMENTS[k][1]], content, i)

Clean(rec) == rec.op = "verify_patch" /\ rec.ret = "True" /\ rec.ftp_urls = <<>>

\* C7 as claimed: if every FTP URL found in the content begins with the text
\* of a URL rule, verify_patch after apply_patch(dry_run=False) finds no FTP
\* URL and returns True.
C7_PatchPostcondition_Original ==
    (RealApply(prev) /\ KnownReferences(prev.pre) /\ last.op = "verify_patch") =>
        Clean(last)

\* C7 amended: if every occurrence of ftp:// in the content begins a match of
\* a URL rule, verify_patch after apply_patch(dry_run=False) finds no FTP URL
\* and returns True; ftp://ftp.genome.jp/pub/x.hmm becomes
\* https://www.genome.jp/ftp/pub/x.hmm.
C7_PatchPostcondition ==
    (RealApply(prev) /\ last.op = "verify_patch") =>
        /\ KnownOccurrences(prev.pre) => Clean(last)
        /\ prev.pre = literal(PAT_GENOME) \o PATH_TAIL =>
              last.pre = REP_GENOME \o PATH_TAIL

\* FTP URLs of two known hosts were rewritten, and verify_patch is clean.
C7_Witness ==
    /\ RealApply(prev) /\ prev.wrote
    /\ Len(prev.changes_made) = 2
    /\ find_ftp_urls(prev.pre) # <<>>
    /\ KnownOccurrences(prev.pre)
    /\ Clean(last)
    /\ last.https_urls # <<>>

\* The Rule Set in application order, each rule with its category.
RuleSet ==
    [k \in 1..Len(URL_REPLACEMENTS) |-> <<"URL">> \o URL_REPLACEMENTS[k]]
      \o [k \in 1..Len(BUG_FIXES) |-> <<"BUG">> \o BUG_FIXES[k]]

\* The text rule k is evaluated on: the content with rules 1..k-1 substituted
\* one after the other.
RECURSIVE TextBefore(_, _)
TextBefore(k, content) ==
    IF k = 1 THEN content
    ELSE re_sub(RuleSet[k - 1][2], RuleSet[k - 1][3], TextBefore(k - 1, content))

\* The entries of rules k.. of the Change Record, text being TextBefore(k).
RECURSIVE ExpectedChanges(_, _)
ExpectedChanges(k, text) ==
    IF k > Len(RuleSet) THEN <<>>
    ELSE LET n == Len(re_findall(RuleSet[k][2], text))
         IN  IF n > 0
             THEN << <<RuleSet[k][1], RuleSet[k][2], RuleSet[k][3], n>> >>
                    \o ExpectedChanges(k + 1, re_sub(RuleSet[k][2], RuleSet[k][3], text))
             ELSE ExpectedChanges(k + 1, text)

\* C9: rule application order.  The Change Record of an apply pass lists, in
\* Rule Set order with URL rules before bug-fix rules, exactly the rules that
\* match the text left by the rules before them, each with that match count,
\* and the text written is the cumulative result of all rules.
C9_RuleOrder ==
    last.op = "apply_patch" =>
        /\ last.changes_made = ExpectedChanges(1, last.pre)
        /\ last.wrote => handler_file = TextBefore(Len(RuleSet) + 1, last.pre)
        /\ \A i, j \in 1..Len(last.changes_made) :
              (last.changes_made[i][1] = "BUG" /\ last.changes_made[j][1] = "URL") => j < i

\* An apply pass in which a URL rule and a bug-fix rule both fired.
C9_Witness ==
    /\ last.op = "apply_patch"
    /\ last.wrote
    /\ Len(last.changes_made) = 2
    /\ last.changes_made[1][1] = "URL"
    /\ last.changes_made[2][1] = "BUG"

CompletedBackup(rec) == rec.op = "create_backup" /\ rec.ret = "path"

\* C2 as claimed: create_backup, then optionally apply_patch(dry_run=False),
\* then restore_backup leaves the target with the content it had when
\* create_backup was called, whatever ran before.
C2_RoundTrip_Original ==
    [][last'.op = "restore_backup" /\ last' # last =>
          /\ CompletedBackup(last) => handler_file' = last.pre
          /\ (CompletedBackup(prev) /\ RealApply(last)) => handler_file' = prev.pre]_vars

\* At create_backup no .py.original existed, or it held the target's content.
FreshBackup(rec) ==
    CompletedBackup(rec) /\ (rec.pre_original = <<>> \/ rec.pre_original = <<rec.pre>>)

\* C2 amended: create_backup, then optionally apply_patch(dry_run=False),
\* then restore_backup leaves the target with the content it had when
\* create_backup was called, provided that at that call no pristine snapshot
\* existed yet or the existing one held the same content.
C2_RoundTrip ==
    [][last'.op = "restore_backup" /\ last' # last =>
          /\ FreshBackup(last) => handler_file' = last.pre
          /\ (FreshBackup(prev) /\ RealApply(last)) => handler_file' = prev.pre]_vars

\* restore_backup has undone a patch that was written after the pristine
\* snapshot was taken.
C2_Witness ==
    /\ RealApply(prev) /\ prev.wrote
    /\ prev.pre_original = <<prev.pre>>
    /\ last.op = "restore_backup" /\ last.ret = "True"
    /\ handler_file = prev.pre
    /\ handler_file # last.pre

\* C3: first-patch-wins.  Once .py.original exists, no method call changes
\* its content; create_backup writes it only when it does not exist.
C3_PristineKept ==
    [][original_backup # <<>> => original_backup' = original_backup]_vars

\* create_backup ran while .py.original existed with a content other than
\* the target's, and left it as it was.
C3_Witness ==
    /\ CompletedBackup(last)
    /\ last.pre_original # <<>>
    /\ last.pre_original # <<last.pre>>
    /\ original_backup = last.pre_original

\* C6: restore-unavailable.  restore_backup without a .py.original returns
\* False, raises nothing and leaves the target and every snapshot as they were.
C6_RestoreUnavailable ==
    (last.op = "restore_backup" /\ last.pre_original = <<>>) =>
        /\ last.ret = "False"
        /\ ~last.wrote
        /\ handler_file = last.pre
        /\ original_backup = <<>>
        /\ backup_dir = last.pre_backups

\* restore_backup failed while a timestamped snapshot, but no pristine one,
\* was there.
C6_Witness ==
    /\ last.op = "restore_backup"
    /\ last.pre_original = <<>>
    /\ last.ret = "False"
    /\ \E t \in Stamps : backup_dir[t] # <<>>

Running == pc \notin {"idle", "done"}

PatchMode == ~args.restore /\ ~args.verify_only

\* C5: a preview run (--dry-run in patch mode) changes neither the target
\* nor any snapshot, pristine or timestamped, in any of its steps.
C5_PreviewUntouched ==
    [][(Running /\ PatchMode /\ args.dry_run) => UNCHANGED fs]_vars

\* C8 as claimed: a --restore run calls restore_backup and nothing else.
C8_RestoreOnly_Original ==
    (args.restore /\ pc # "idle") =>
        \A i \in 1..Len(calls) : calls[i] = "restore_backup"

\* C8 amended: a --restore run calls restore_backup first and never
\* analyze_file, create_backup or apply_patch; it calls verify_patch once
\* afterwards exactly when restore_backup succeeded, that is, when the
\* pristine snapshot exists.
C8_RestoreOnly ==
    (args.restore /\ pc # "idle") =>
        /\ calls \in { <<>>, <<"restore_backup">>, <<"restore_backup", "verify_patch">> }
        /\ (pc = "done" /\ calls # <<>>) =>
              (Len(calls) = 2 <=> original_backup # <<>>)

\* A --restore run that put a patched target back and then verified it.
C8_Witness ==
    /\ args.restore
    /\ pc = "done"
    /\ calls = <<"restore_backup", "verify_patch">>
    /\ prev.op = "restore_backup" /\ prev.ret = "True"
    /\ prev.pre # handler_file

WithBackup == PatchMode /\ ~args.no_backup /\ ~args.dry_run

\* C10: backup precedes mutation.  In a patch run with backup, apply_patch
\* writes the target only after create_backup has completed in the same run,
\* so at the write .py.original exists and a timestamped snapshot holds the
\* content being overwritten; and if create_backup raises, the run ends with
\* exit code 1 and the target as it was.
C10_BackupFirst ==
    (WithBackup /\ pc # "idle") =>
        /\ (last.op = "apply_patch" /\ last.wrote) =>
              /\ CompletedBackup(prev)
              /\ calls = <<"analyze_file", "create_backup", "apply_patch">>
              /\ last.pre_original # <<>>
              /\ \E t \in Stamps : last.pre_backups[t] = <<last.pre>>
        /\ (last.op = "create_backup" /\ last.ret = "raise") =>
              /\ pc = "done"
              /\ rc = 1
              /\ handler_file = last.pre

\* The target was rewritten in a run whose create_backup found an older
\* pristine snapshot.
C10_Witness ==
    /\ WithBackup
    /\ pc = "verify"
    /\ last.op = "apply_patch" /\ last.wrote
    /\ prev.pre_original # <<>>

====
